---- MODULE Spec2Model ----
(***************************************************************************)
(* Template by Note Name (Obsidian plugin): the rule matcher, the          *)
(* first-match resolver, the template renderer and the create / rename     *)
(* handlers of TemplateByNoteNamePlugin, latest revision of src/main.ts    *)
(* (kept in src/unnamed/part_008, lines 926-1446).                         *)
(*                                                                         *)
(* A string is a sequence of one-character strings.                        *)
(***************************************************************************)
EXTENDS Integers, Sequences, FiniteSets, TLC

VARIABLES
    settings,   \* this.settings of the plugin
    data,       \* the plugin's persisted data (loadData / saveData)
    vault,      \* the vault: path |-> content, for the files that exist
    tasks,      \* the create / rename handler invocations, by slot
    clock,      \* the wall clock moment() reads
    call,       \* the last direct call of a pure function and its result
    saves,      \* saveData: the calls so far, and the writes not yet done
    unloaded    \* this.settings of the plugin objects unloaded so far, in order

vars == <<settings, data, vault, tasks, clock, call, saves, unloaded>>

-----------------------------------------------------------------------------
(* Bounds of the model *)

\* longest rule list drawn for the settings
MaxRules == 2
\* longest matchString drawn for the pure matcher calls
MaxMatchLen == 2
\* longest basename drawn for the pure matcher calls
MaxNameLen == 3
\* an event is only emitted on a note whose content is at most this long
MaxContentLen == 3
\* longest template drawn for the rendering calls, in chunks
MaxChunks == 3
\* saveData is called at most this many times
MaxSaves == 2

\* no saveData call yet
NoSaves == [issued |-> 0, pending |-> <<>>]

-----------------------------------------------------------------------------
(* Strings *)

\* all strings over alphabet A of length at most n
RECURSIVE StringsUpTo(_, _)
StringsUpTo(A, n) ==
    IF n = 0 THEN {<<>>}
    ELSE LET shorter == StringsUpTo(A, n - 1)
         IN  shorter \cup {Append(s, c) : s \in {t \in shorter : Len(t) = n - 1}, c \in A}

\* A character of the model is one UTF-16 code unit of U+0000 to U+00FF, written
\* as itself where a string of this module can hold it and as the string of its
\* escape, "\\u" and four hexadecimal digits, where it cannot; the code units
\* above U+00FF that the definitions below name are written as their escapes too.
\* CodeUnits[n + 1] is the code unit n.
CodeUnits ==
    << "\\u0000", "", "", "", "", "", "", "",
       "", "\t", "\n", "", "\f", "\r", "", "",
       "", "", "", "", "", "", "", "",
       "", "", "", "", "", "", "", "",
       " ", "!", "\"", "#", "$", "%", "&", "'",
       "(", ")", "*", "+", ",", "-", ".", "/",
       "0", "1", "2", "3", "4", "5", "6", "7",
       "8", "9", ":", ";", "<", "=", ">", "?",
       "@", "A", "B", "C", "D", "E", "F", "G",
       "H", "I", "J", "K", "L", "M", "N", "O",
       "P", "Q", "R", "S", "T", "U", "V", "W",
       "X", "Y", "Z", "[", "\\", "]", "^", "_",
       "\\u0060", "a", "b", "c", "d", "e", "f", "g",
       "h", "i", "j", "k", "l", "m", "n", "o",
       "p", "q", "r", "s", "t", "u", "v", "w",
       "x", "y", "z", "{", "|", "}", "~", "",
       "\\u0080", "\\u0081", "\\u0082", "\\u0083", "\\u0084", "\\u0085", "\\u0086", "\\u0087",
       "\\u0088", "\\u0089", "\\u008a", "\\u008b", "\\u008c", "\\u008d", "\\u008e", "\\u008f",
       "\\u0090", "\\u0091", "\\u0092", "\\u0093", "\\u0094", "\\u0095", "\\u0096", "\\u0097",
       "\\u0098", "\\u0099", "\\u009a", "\\u009b", "\\u009c", "\\u009d", "\\u009e", "\\u009f",
       "\\u00a0", "\\u00a1", "\\u00a2", "\\u00a3", "\\u00a4", "\\u00a5", "\\u00a6", "\\u00a7",
       "\\u00a8", "\\u00a9", "\\u00aa", "\\u00ab", "\\u00ac", "\\u00ad", "\\u00ae", "\\u00af",
       "\\u00b0", "\\u00b1", "\\u00b2", "\\u00b3", "\\u00b4", "\\u00b5", "\\u00b6", "\\u00b7",
       "\\u00b8", "\\u00b9", "\\u00ba", "\\u00bb", "\\u00bc", "\\u00bd", "\\u00be", "\\u00bf",
       "\\u00c0", "\\u00c1", "\\u00c2", "\\u00c3", "\\u00c4", "\\u00c5", "\\u00c6", "\\u00c7",
       "\\u00c8", "\\u00c9", "\\u00ca", "\\u00cb", "\\u00cc", "\\u00cd", "\\u00ce", "\\u00cf",
       "\\u00d0", "\\u00d1", "\\u00d2", "\\u00d3", "\\u00d4", "\\u00d5", "\\u00d6", "\\u00d7",
       "\\u00d8", "\\u00d9", "\\u00da", "\\u00db", "\\u00dc", "\\u00dd", "\\u00de", "\\u00df",
       "\\u00e0", "\\u00e1", "\\u00e2", "\\u00e3", "\\u00e4", "\\u00e5", "\\u00e6", "\\u00e7",
       "\\u00e8", "\\u00e9", "\\u00ea", "\\u00eb", "\\u00ec", "\\u00ed", "\\u00ee", "\\u00ef",
       "\\u00f0", "\\u00f1", "\\u00f2", "\\u00f3", "\\u00f4", "\\u00f5", "\\u00f6", "\\u00f7",
       "\\u00f8", "\\u00f9", "\\u00fa", "\\u00fb", "\\u00fc", "\\u00fd", "\\u00fe", "\\u00ff" >>

\* String.prototype.charCodeAt(0)
codeUnitOf(c) == CHOOSE n \in 0..(Len(CodeUnits) - 1) : CodeUnits[n + 1] = c

\* the lower case of a code unit up to U+00FF: A-Z and the letters of U+00C0 to
\* U+00DE (U+00D7 is the multiplication sign) are 32 below their lower case
lowerCaseCode(n) ==
    IF n \in 65..90 \/ (n \in 192..222 /\ n # 215) THEN n + 32 ELSE n

LowerCaseOf ==
    [c \in {CodeUnits[i] : i \in 1..Len(CodeUnits)} |->
        CodeUnits[lowerCaseCode(codeUnitOf(c)) + 1]]

\* String.prototype.toLowerCase on one character of the model; no value for a
\* code unit above U+00FF
toLowerCaseChar(c) == LowerCaseOf[c]

\* String.prototype.toLowerCase
toLowerCase(s) == [i \in 1..Len(s) |-> toLowerCaseChar(s[i])]

LineSeparator == "\\u2028"

ParagraphSeparator == "\\u2029"

\* LineTerminator of ECMAScript: LF, CR, U+2028, U+2029
LineTerminators == {"\n", "\r", LineSeparator, ParagraphSeparator}

\* WhiteSpace of ECMAScript: TAB, VT, FF, U+FEFF and the space separators
WhiteSpaces ==
    {"\t", "", "\f", " ", "\\u00a0", "\\ufeff", "\\u1680",
     "\\u2000", "\\u2001", "\\u2002", "\\u2003", "\\u2004", "\\u2005", "\\u2006",
     "\\u2007", "\\u2008", "\\u2009", "\\u200a", "\\u202f", "\\u205f", "\\u3000"}

\* the characters String.prototype.trim strips: WhiteSpace and LineTerminator
IsWhiteSpace(c) == c \in WhiteSpaces \cup LineTerminators

\* String.prototype.trim
RECURSIVE trimStart(_)
trimStart(s) ==
    IF s # <<>> /\ IsWhiteSpace(Head(s)) THEN trimStart(Tail(s)) ELSE s

RECURSIVE trimEnd(_)
trimEnd(s) ==
    IF s # <<>> /\ IsWhiteSpace(s[Len(s)]) THEN trimEnd(SubSeq(s, 1, Len(s) - 1)) ELSE s

trim(s) == trimEnd(trimStart(s))

\* String.prototype.startsWith / endsWith / includes
startsWith(s, p) == Len(p) <= Len(s) /\ SubSeq(s, 1, Len(p)) = p

endsWith(s, p) == Len(p) <= Len(s) /\ SubSeq(s, Len(s) - Len(p) + 1, Len(s)) = p

includes(s, p) == \E i \in 0..(Len(s) - Len(p)) : SubSeq(s, i + 1, i + Len(p)) = p

\* String.prototype.split("/").pop(): the text after the last "/"
RECURSIVE lastComponent(_)
lastComponent(s) ==
    IF \E i \in 1..Len(s) : s[i] = "/"
    THEN lastComponent(SubSeq(s, (CHOOSE i \in 1..Len(s) : s[i] = "/") + 1, Len(s)))
    ELSE s

\* String.prototype.slice(0, -n)
sliceEnd(s, n) == IF Len(s) > n THEN SubSeq(s, 1, Len(s) - n) ELSE <<>>

-----------------------------------------------------------------------------
(* Settings and rules *)

NoMatcher == [matchString |-> <<>>, templatePath |-> <<>>, matchMethod |-> "undefined"]

Matcher(ms, tp, mm) == [matchString |-> ms, templatePath |-> tp, matchMethod |-> mm]

DEFAULT_SETTINGS ==
    [templateFolder |-> <<"T", "e", "m", "p", "l", "a", "t", "e", "s">>,
     dateFormat |-> <<"Y", "Y", "Y", "Y", "-", "M", "M", "-", "D", "D">>,
     timeFormat |-> <<"H", "H", ":", "m", "m">>,
     templateOnRename |-> FALSE,
     caseSensitive |-> TRUE,
     matchers |-> <<>>]

\* loadSettings with a slip: the defaults are assigned last and win
loadSettings_defaultsWin(persisted) ==
    [k \in DOMAIN DEFAULT_SETTINGS \cup DOMAIN persisted |->
        IF k \in DOMAIN DEFAULT_SETTINGS THEN DEFAULT_SETTINGS[k] ELSE persisted[k]]

\* Object.assign({}, DEFAULT_SETTINGS, persisted): persisted keys win; loadData()
\* gives null, here the empty function, when nothing was saved
loadSettings(persisted) ==
    [k \in DOMAIN DEFAULT_SETTINGS \cup DOMAIN persisted |->
        IF k \in DOMAIN persisted THEN persisted[k] ELSE DEFAULT_SETTINGS[k]]

\* fileMatchesRule with a slip: the empty-matchString check is missing
fileMatchesRule_noBlankCheck(basename, matcher) ==
    IF FALSE THEN FALSE
    ELSE LET b  == IF settings.caseSensitive THEN basename ELSE toLowerCase(basename)
             matchString == IF settings.caseSensitive THEN matcher.matchString
                            ELSE toLowerCase(matcher.matchString)
         IN  CASE matcher.matchMethod = "prefix"   -> startsWith(b, matchString)
               [] matcher.matchMethod = "suffix"   -> endsWith(b, matchString)
               [] matcher.matchMethod = "contains" -> includes(b, matchString)
               [] OTHER -> FALSE

\* fileMatchesRule with a slip: the matchString is compared with "" untrimmed
fileMatchesRule_noTrim(basename, matcher) ==
    IF matcher.matchString = <<>> THEN FALSE
    ELSE LET b  == IF settings.caseSensitive THEN basename ELSE toLowerCase(basename)
             matchString == IF settings.caseSensitive THEN matcher.matchString
                            ELSE toLowerCase(matcher.matchString)
         IN  CASE matcher.matchMethod = "prefix"   -> startsWith(b, matchString)
               [] matcher.matchMethod = "suffix"   -> endsWith(b, matchString)
               [] matcher.matchMethod = "contains" -> includes(b, matchString)
               [] OTHER -> FALSE

\* fileMatchesRule with a slip: prefix tested with includes
fileMatchesRule_prefixIncludes(basename, matcher) ==
    IF trim(matcher.matchString) = <<>> THEN FALSE
    ELSE LET b  == IF settings.caseSensitive THEN basename ELSE toLowerCase(basename)
             matchString == IF settings.caseSensitive THEN matcher.matchString
                            ELSE toLowerCase(matcher.matchString)
         IN  CASE matcher.matchMethod = "prefix"   -> includes(b, matchString)
               [] matcher.matchMethod = "suffix"   -> endsWith(b, matchString)
               [] matcher.matchMethod = "contains" -> includes(b, matchString)
               [] OTHER -> FALSE

\* fileMatchesRule with a slip: suffix tested with startsWith
fileMatchesRule_suffixStartsWith(basename, matcher) ==
    IF trim(matcher.matchString) = <<>> THEN FALSE
    ELSE LET b  == IF settings.caseSensitive THEN basename ELSE toLowerCase(basename)
             matchString == IF settings.caseSensitive THEN matcher.matchString
                            ELSE toLowerCase(matcher.matchString)
         IN  CASE matcher.matchMethod = "prefix"   -> startsWith(b, matchString)
               [] matcher.matchMethod = "suffix"   -> startsWith(b, matchString)
               [] matcher.matchMethod = "contains" -> includes(b, matchString)
               [] OTHER -> FALSE

\* fileMatchesRule with a slip: only the basename is lowercased
fileMatchesRule_rawMatchString(basename, matcher) ==
    IF trim(matcher.matchString) = <<>> THEN FALSE
    ELSE LET b  == IF settings.caseSensitive THEN basename ELSE toLowerCase(basename)
             matchString == matcher.matchString
         IN  CASE matcher.matchMethod = "prefix"   -> startsWith(b, matchString)
               [] matcher.matchMethod = "suffix"   -> endsWith(b, matchString)
               [] matcher.matchMethod = "contains" -> includes(b, matchString)
               [] OTHER -> FALSE

\* fileMatchesRule with a slip: an unrecognized method falls back to includes
fileMatchesRule_defaultIncludes(basename, matcher) ==
    IF trim(matcher.matchString) = <<>> THEN FALSE
    ELSE LET b  == IF settings.caseSensitive THEN basename ELSE toLowerCase(basename)
             matchString == IF settings.caseSensitive THEN matcher.matchString
                            ELSE toLowerCase(matcher.matchString)
         IN  CASE matcher.matchMethod = "prefix"   -> startsWith(b, matchString)
               [] matcher.matchMethod = "suffix"   -> endsWith(b, matchString)
               [] matcher.matchMethod = "contains" -> includes(b, matchString)
               [] OTHER -> includes(b, matchString)

\* fileMatchesRule(basename, matcher), reading this.settings.caseSensitive
fileMatchesRule(basename, matcher) ==
    IF trim(matcher.matchString) = <<>> THEN FALSE
    ELSE LET b  == IF settings.caseSensitive THEN basename ELSE toLowerCase(basename)
             matchString == IF settings.caseSensitive THEN matcher.matchString
                            ELSE toLowerCase(matcher.matchString)
         IN  CASE matcher.matchMethod = "prefix"   -> startsWith(b, matchString)
               [] matcher.matchMethod = "suffix"   -> endsWith(b, matchString)
               [] matcher.matchMethod = "contains" -> includes(b, matchString)
               [] OTHER -> FALSE

\* findMatcherIndex with a slip: the last matching rule instead of the first
findMatcherIndex_last(basename) ==
    LET hits == {i \in 1..Len(settings.matchers) :
                    fileMatchesRule(basename, settings.matchers[i])}
    IN  IF hits = {} THEN 0
        ELSE CHOOSE i \in hits : \A j \in hits : j <= i

\* Array.prototype.find as an index: the least index whose rule matches, 0 for none
findMatcherIndex(basename) ==
    LET hits == {i \in 1..Len(settings.matchers) :
                    fileMatchesRule(basename, settings.matchers[i])}
    IN  IF hits = {} THEN 0
        ELSE CHOOSE i \in hits : \A j \in hits : i <= j

findMatcherForFile(basename) ==
    LET i == findMatcherIndex(basename)
    IN  IF i = 0 THEN NoMatcher ELSE settings.matchers[i]

-----------------------------------------------------------------------------
(* The clock and moment().format *)

Digits == <<"0", "1", "2", "3", "4", "5", "6", "7", "8", "9">>

digit(n) == Digits[n + 1]

pad2(n) == <<digit((n \div 10) % 10), digit(n % 10)>>

pad4(n) == <<digit((n \div 1000) % 10), digit((n \div 100) % 10)>> \o pad2(n)

\* moment().format(fmt) for patterns built from YYYY, MM, DD, HH, mm and
\* separator characters; every other character is copied
RECURSIVE momentFormat(_, _)
momentFormat(fmt, t) ==
    IF fmt = <<>> THEN <<>>
    ELSE IF startsWith(fmt, <<"Y", "Y", "Y", "Y">>)
         THEN pad4(t.year) \o momentFormat(SubSeq(fmt, 5, Len(fmt)), t)
    ELSE IF startsWith(fmt, <<"M", "M">>)
         THEN pad2(t.month) \o momentFormat(SubSeq(fmt, 3, Len(fmt)), t)
    ELSE IF startsWith(fmt, <<"D", "D">>)
         THEN pad2(t.day) \o momentFormat(SubSeq(fmt, 3, Len(fmt)), t)
    ELSE IF startsWith(fmt, <<"H", "H">>)
         THEN pad2(t.hour) \o momentFormat(SubSeq(fmt, 3, Len(fmt)), t)
    ELSE IF startsWith(fmt, <<"m", "m">>)
         THEN pad2(t.minute) \o momentFormat(SubSeq(fmt, 3, Len(fmt)), t)
    ELSE <<Head(fmt)>> \o momentFormat(Tail(fmt), t)

-----------------------------------------------------------------------------
(* Template evaluation *)

\* /{{(.+?)}}/ tried at the head of s: the length of the shortest capture, 0 when
\* the pattern does not match there ("." matches no line terminator)
bracketCapture(s) ==
    IF ~ startsWith(s, <<"{", "{">>) THEN 0
    ELSE LET ks == {k \in 1..(Len(s) - 4) :
                       /\ s[2 + k + 1] = "}"
                       /\ s[2 + k + 2] = "}"
                       /\ \A j \in 3..(2 + k) : s[j] \notin LineTerminators}
         IN  IF ks = {} THEN 0 ELSE CHOOSE k \in ks : \A j \in ks : k <= j

\* replaceDates of the plugin object whose this.settings is s
RECURSIVE replaceDatesOf(_, _)
replaceDatesOf(content, s) ==
    IF content = <<>> THEN <<>>
    ELSE LET k == bracketCapture(content)
         IN  IF k = 0 THEN <<Head(content)>> \o replaceDatesOf(Tail(content), s)
             ELSE LET match == SubSeq(content, 1, k + 4)
                      bracketContent == SubSeq(content, 3, k + 2)
                      rest == SubSeq(content, k + 5, Len(content))
                      out == IF bracketContent = <<"d", "a", "t", "e">>
                             THEN momentFormat(s.dateFormat, clock)
                             ELSE IF startsWith(bracketContent, <<"d", "a", "t", "e", ":">>)
                             THEN momentFormat(SubSeq(bracketContent, 6, k), clock)
                             ELSE match
                  IN  out \o replaceDatesOf(rest, s)

\* replaceTimes of the plugin object whose this.settings is s
RECURSIVE replaceTimesOf(_, _)
replaceTimesOf(content, s) ==
    IF content = <<>> THEN <<>>
    ELSE LET k == bracketCapture(content)
         IN  IF k = 0 THEN <<Head(content)>> \o replaceTimesOf(Tail(content), s)
             ELSE LET match == SubSeq(content, 1, k + 4)
                      bracketContent == SubSeq(content, 3, k + 2)
                      rest == SubSeq(content, k + 5, Len(content))
                      out == IF bracketContent = <<"t", "i", "m", "e">>
                             THEN momentFormat(s.timeFormat, clock)
                             ELSE IF startsWith(bracketContent, <<"t", "i", "m", "e", ":">>)
                             THEN momentFormat(SubSeq(bracketContent, 6, k), clock)
                             ELSE match
                  IN  out \o replaceTimesOf(rest, s)

\* evaluateTemplate of the plugin object whose this.settings is s
evaluateTemplateOf(template, s) == replaceTimesOf(replaceDatesOf(template, s), s)

\* the three methods of the loaded plugin
replaceDates(content) == replaceDatesOf(content, settings)

replaceTimes(content) == replaceTimesOf(content, settings)

evaluateTemplate(template) == replaceTimes(replaceDates(template))

-----------------------------------------------------------------------------
(* Paths, the vault and the universe of the handler specification *)

\* TFile.basename: the last path component without its extension
Basename(path) ==
    LET name == lastComponent(path)
        dots == {i \in 1..Len(name) : name[i] = "."}
    IN  IF dots = {} THEN name
        ELSE SubSeq(name, 1, (CHOOSE i \in dots : \A j \in dots : j <= i) - 1)

\* Vault.getFileByPath(path) finds a file
getFileByPath(path) == path \in DOMAIN vault

PathToA == <<"t", "/", "A", ".", "m", "d">>
PathToB == <<"t", "/", "B", ".", "m", "d">>
PathMissing == <<"t", "/", "C", ".", "m", "d">>
PathBystander == <<"z", ".", "m", "d">>

TemplateA == <<"-", "{", "{", "d", "a", "t", "e", "}", "}">>
TemplateB == <<"{", "{", "t", "i", "m", "e", ":", "H", "H", "}", "}", "{", "{", "x", "}", "}">>

\* the paths create and rename events are emitted for: the handlers run for every
\* TFile, Markdown notes (in the root or in a folder) and files of other extensions
NotePaths ==
    { <<"T", "o", ".", "m", "d">>,
      <<"d", "/", "t", "o", ".", "m", "d">>,
      <<"d", ".", "e", "/", "o", "T", "o", ".", "m", "d">>,
      <<"x", ".", "m", "d">>,
      <<"t", "o", ".", "t", "x", "t">>,
      <<"t", "o", "x", ".", "c">> }

\* the content a note is created with
NewContents == { <<>>, <<"m">> }

\* the rules the persisted rule list is drawn from
RuleUniverse ==
    { Matcher(<<"T", "o">>, PathToA, "prefix"),
      Matcher(<<"o">>, PathToB, "contains"),
      Matcher(<<"t", "o">>, PathMissing, "suffix"),
      Matcher(<<>>, PathToA, "prefix"),
      Matcher(<<"x">>, <<>>, "prefix") }

RECURSIVE SeqsUpTo(_, _)
SeqsUpTo(S, n) ==
    IF n = 0 THEN {<<>>}
    ELSE LET shorter == SeqsUpTo(S, n - 1)
         IN  shorter \cup {Append(s, x) : s \in {t \in shorter : Len(t) = n - 1}, x \in S}

Handlers == {"h1", "h2"}

\* the plugin instance before onload: this.settings is not assigned yet
NoSettings == <<>>

\* a handler invocation; plugin is the plugin object it is a method call of: 0
\* while that is the loaded one, its place in unloaded once it is unloaded
IdleTask ==
    [kind |-> "none", pc |-> "idle", file |-> <<>>, oldPath |-> <<>>,
     matcherIndex |-> 0, oldBaseName |-> <<>>,
     templatePath |-> <<>>, templateContent |-> <<>>,
     fileContent |-> <<>>, reads |-> <<>>, writes |-> 0, logged |-> FALSE,
     lastRule |-> NoMatcher, away |-> FALSE, repeat |-> "none",
     settings0 |-> DEFAULT_SETTINGS, settings1 |-> DEFAULT_SETTINGS,
     plugin |-> 0, vault0 |-> <<>>, clock0 |-> clock]

Running(h) == tasks[h].pc \notin {"idle", "done", "failed"}

Quiet == \A h \in Handlers : ~ Running(h)

ExistingNotes == DOMAIN vault \cap NotePaths

NoCall == [op |-> "none", basename |-> <<>>, result |-> FALSE, index |-> 0]

Init ==
    /\ data \in {[templateOnRename |-> r, caseSensitive |-> cs, matchers |-> ms] :
                    r \in BOOLEAN, cs \in BOOLEAN,
                    ms \in SeqsUpTo(RuleUniverse, MaxRules)}
    /\ settings = loadSettings(data)
    /\ vault = (PathToA :> TemplateA) @@ (PathToB :> TemplateB) @@ (PathBystander :> <<"z">>)
    /\ clock = [year |-> 2024, month |-> 12, day |-> 19, hour |-> 9, minute |-> 5]
    /\ tasks = [h \in Handlers |-> IdleTask]
    /\ saves = NoSaves
    /\ unloaded = <<>>
    /\ call = NoCall

-----------------------------------------------------------------------------
(* The handlers, one action per stretch between two suspension points *)

\* templateNote with a slip: a missing template ends the handler
templateNote_abortOnMissing(rec, templatePath) ==
    IF templatePath \in DOMAIN rec.vault0
    THEN [rec EXCEPT !.pc = "readTemplate", !.templatePath = templatePath]
    ELSE [rec EXCEPT !.pc = "done", !.templatePath = templatePath, !.logged = TRUE]

\* templateNote(file, templatePath) up to its first suspension: getTemplateContent
\* looks the template up (getFileByPath) in the vault as the event left it, which
\* the record holds as vault0; a missing template is logged and yields ""
templateNote(rec, templatePath) ==
    IF templatePath \in DOMAIN rec.vault0
    THEN [rec EXCEPT !.pc = "readTemplate", !.templatePath = templatePath]
    ELSE [rec EXCEPT !.pc = "readFile", !.templatePath = templatePath,
                     !.logged = TRUE, !.templateContent = <<>>]

\* what is remembered of the renames of the note so far: the rule whose template a
\* rename handler prepended last, and whether the note has since carried a name
\* that rule does not match
Carry(rec, prev, newBasename) ==
    [rec EXCEPT !.lastRule = prev.lastRule,
                !.away = \/ prev.away
                         \/ /\ prev.lastRule # NoMatcher
                            /\ ~ fileMatchesRule(newBasename, prev.lastRule)]

\* the record of an invocation that has written: a rename handler notes whether the
\* rule whose template it prepended is the one prepended last ("direct" when the
\* note matched that rule all along, "afterAway" otherwise)
Written(t) ==
    LET rule == t.settings0.matchers[t.matcherIndex]
        done == [t EXCEPT !.pc = "done", !.writes = @ + 1]
    IN  IF t.kind # "rename" THEN done
        ELSE [done EXCEPT !.lastRule = rule, !.away = FALSE,
                          !.repeat = IF rule # t.lastRule THEN "none"
                                     ELSE IF t.away THEN "afterAway" ELSE "direct"]

\* the record of a handler invocation at the moment its event is received
NewTask(kind, file, oldPath, v) ==
    [IdleTask EXCEPT !.kind = kind, !.file = file, !.oldPath = oldPath,
                     !.settings0 = settings, !.settings1 = settings,
                     !.vault0 = v, !.clock0 = clock]

\* templateOnCreate(file) up to its first suspension
templateOnCreate(rec) ==
    LET i == findMatcherIndex(Basename(rec.file))
        templatePath == IF i = 0 THEN <<>> ELSE settings.matchers[i].templatePath
    IN  IF templatePath # <<>>
        THEN templateNote([rec EXCEPT !.matcherIndex = i], templatePath)
        ELSE [rec EXCEPT !.matcherIndex = i, !.pc = "done"]

\* templateOnRename with a slip: the templateOnRename setting is not consulted
templateOnRename_anySetting(rec) ==
    LET i == findMatcherIndex(Basename(rec.file))
    IN  IF i = 0 THEN [rec EXCEPT !.pc = "done"]
        ELSE LET matcher == settings.matchers[i]
                 oldBaseName == sliceEnd(lastComponent(rec.oldPath), 3)
                 found == [rec EXCEPT !.matcherIndex = i, !.oldBaseName = oldBaseName]
             IN  IF fileMatchesRule(oldBaseName, matcher)
                 THEN [found EXCEPT !.pc = "done"]
                 ELSE templateNote(found, matcher.templatePath)

\* templateOnRename(file, oldName) up to its first suspension
templateOnRename(rec) ==
    LET i == findMatcherIndex(Basename(rec.file))
    IN  IF i = 0 THEN [rec EXCEPT !.pc = "done"]
        ELSE LET matcher == settings.matchers[i]
                 found == [rec EXCEPT !.matcherIndex = i]
                 oldBaseName == sliceEnd(lastComponent(rec.oldPath), 3)
                 tested == [found EXCEPT !.oldBaseName = oldBaseName]
             IN  IF ~ settings.templateOnRename THEN [found EXCEPT !.pc = "done"]
                 ELSE IF fileMatchesRule(oldBaseName, matcher)
                      THEN [tested EXCEPT !.pc = "done"]
                 ELSE templateNote(tested, matcher.templatePath)

\* the host creates note p with content c (the one note the model follows) and
\* emits "create": the callback runs templateOnCreate(file)
OnCreate(h, p, c) ==
    /\ ~ Running(h)
    /\ p \in NotePaths \ DOMAIN vault
    /\ ExistingNotes = {}
    /\ vault' = (p :> c) @@ vault
    /\ tasks' = [tasks EXCEPT ![h] = templateOnCreate(NewTask("create", p, <<>>, vault'))]
    /\ UNCHANGED <<settings, data, clock, call, saves, unloaded>>

\* the TFile objects an invocation holds after the host has renamed old to new: the
\* file of its event, and the template while getTemplateContent waits to read it
Moved(t, old, new) ==
    [t EXCEPT !.file = IF @ = old THEN new ELSE @,
              !.templatePath = IF t.pc = "readTemplate" /\ @ = old THEN new ELSE @]

\* the host renames file old (a note, or a template) to new and emits "rename":
\* the callback runs templateOnRename(file, oldName); a handler still holding the
\* TFile sees its new path
OnRename(h, old, new) ==
    /\ ~ Running(h)
    /\ old \in DOMAIN vault
    /\ new \notin DOMAIN vault
    /\ old \in NotePaths => Len(vault[old]) <= MaxContentLen
    /\ vault' = [q \in (DOMAIN vault \ {old}) \cup {new} |->
                    IF q = new THEN vault[old] ELSE vault[q]]
    /\ tasks' = [g \in Handlers |->
                    IF g = h
                    THEN templateOnRename(Carry(NewTask("rename", new, old, vault'),
                                                tasks[h], Basename(new)))
                    ELSE Moved(tasks[g], old, new)]
    /\ UNCHANGED <<settings, data, clock, call, saves, unloaded>>

\* getTemplateContent resumes: vault.read(template) of the TFile it holds, then
\* evaluateTemplate with this.settings of its plugin object as they are now (kept
\* as settings1)
ReadTemplate(h) ==
    /\ tasks[h].pc = "readTemplate"
    /\ LET rec == tasks[h]
           s == IF rec.plugin = 0 THEN settings ELSE unloaded[rec.plugin]
       IN  tasks' = [tasks EXCEPT ![h] =
              IF getFileByPath(rec.templatePath)
              THEN [rec EXCEPT !.pc = "readFile",
                               !.templateContent =
                                   evaluateTemplateOf(vault[rec.templatePath], s),
                               !.settings1 = s,
                               !.reads = Append(rec.reads, rec.templatePath)]
              ELSE [rec EXCEPT !.pc = "failed"]]
    /\ UNCHANGED <<settings, data, vault, clock, call, saves, unloaded>>

\* templateNote resumes: vault.read(file)
ReadFile(h) ==
    /\ tasks[h].pc = "readFile"
    /\ LET rec == tasks[h]
       IN  tasks' = [tasks EXCEPT ![h] =
              IF getFileByPath(rec.file)
              THEN [rec EXCEPT !.pc = "modify", !.fileContent = vault[rec.file],
                               !.reads = Append(rec.reads, rec.file)]
              ELSE [rec EXCEPT !.pc = "failed"]]
    /\ UNCHANGED <<settings, data, vault, clock, call, saves, unloaded>>

\* Modify with a slip: the new content is written to the template note
Modify_writesTemplate(h) ==
    /\ tasks[h].pc = "modify"
    /\ IF getFileByPath(tasks[h].file) /\ getFileByPath(tasks[h].templatePath)
       THEN /\ vault' = [vault EXCEPT ![tasks[h].templatePath] =
                            tasks[h].templateContent \o <<"\n", "\n">> \o tasks[h].fileContent]
            /\ tasks' = [tasks EXCEPT ![h] = Written(tasks[h])]
       ELSE /\ vault' = vault
            /\ tasks' = [tasks EXCEPT ![h].pc = "failed"]
    /\ UNCHANGED <<settings, data, clock, call, saves, unloaded>>

\* Modify with a slip: the rule is tested again, with the settings as they are now
Modify_recheck(h) ==
    /\ tasks[h].pc = "modify"
    /\ IF /\ getFileByPath(tasks[h].file)
          /\ tasks[h].matcherIndex \in 1..Len(settings.matchers)
          /\ fileMatchesRule(Basename(tasks[h].file), settings.matchers[tasks[h].matcherIndex])
       THEN /\ vault' = [vault EXCEPT ![tasks[h].file] =
                            tasks[h].templateContent \o <<"\n", "\n">> \o tasks[h].fileContent]
            /\ tasks' = [tasks EXCEPT ![h] = Written(tasks[h])]
       ELSE /\ vault' = vault
            /\ tasks' = [tasks EXCEPT ![h].pc = "done"]
    /\ UNCHANGED <<settings, data, clock, call, saves, unloaded>>

Modify_overwrite(h) ==
    /\ tasks[h].pc = "modify"
    /\ IF getFileByPath(tasks[h].file)
       THEN /\ vault' = [vault EXCEPT ![tasks[h].file] = tasks[h].templateContent]
            /\ tasks' = [tasks EXCEPT ![h] = Written(tasks[h])]
       ELSE /\ vault' = vault
            /\ tasks' = [tasks EXCEPT ![h].pc = "failed"]
    /\ UNCHANGED <<settings, data, clock, call, saves, unloaded>>

\* templateNote resumes: vault.modify(file, `${templateContent}\n\n${fileContent}`)
Modify(h) ==
    /\ tasks[h].pc = "modify"
    /\ IF getFileByPath(tasks[h].file)
       THEN /\ vault' = [vault EXCEPT ![tasks[h].file] =
                            tasks[h].templateContent \o <<"\n", "\n">> \o tasks[h].fileContent]
            /\ tasks' = [tasks EXCEPT ![h] = Written(tasks[h])]
       ELSE /\ vault' = vault
            /\ tasks' = [tasks EXCEPT ![h].pc = "failed"]
    /\ UNCHANGED <<settings, data, clock, call, saves, unloaded>>

-----------------------------------------------------------------------------
(* Events handled one at a time: a handler runs to completion before the    *)
(* next event; the settings are the ones loaded at startup                  *)

Next ==
    \/ \E p \in NotePaths, c \in NewContents : Quiet /\ OnCreate("h1", p, c)
    \/ \E old \in NotePaths, new \in NotePaths : Quiet /\ OnRename("h1", old, new)
    \/ ReadTemplate("h1")
    \/ ReadFile("h1")
    \/ Modify("h1")

Spec == Init /\ [][Next]_vars

-----------------------------------------------------------------------------
(* Direct calls of the matcher: one rule with any matchString and method,   *)
(* any basename, both caseSensitive values                                  *)

MatchAlphabet == {"T", "t", " "}

MatchMethods == {"prefix", "suffix", "contains", "regex", "Prefix"}

InitMatch ==
    /\ data \in {[caseSensitive |-> cs, matchers |-> <<Matcher(ms, PathToA, mm)>>] :
                    cs \in BOOLEAN,
                    ms \in StringsUpTo(MatchAlphabet, MaxMatchLen),
                    mm \in MatchMethods}
    /\ settings = loadSettings(data)
    /\ vault = (PathToA :> TemplateA)
    /\ clock = [year |-> 2024, month |-> 12, day |-> 19, hour |-> 9, minute |-> 5]
    /\ tasks = [h \in Handlers |-> IdleTask]
    /\ saves = NoSaves
    /\ unloaded = <<>>
    /\ call \in {[NoCall EXCEPT !.basename = b] : b \in StringsUpTo(MatchAlphabet, MaxNameLen)}

\* this.fileMatchesRule(basename, this.settings.matchers[0])
CallFileMatchesRule ==
    /\ call.op = "none"
    /\ call' = [call EXCEPT !.op = "fileMatchesRule",
                            !.result = fileMatchesRule(call.basename, settings.matchers[1])]
    /\ UNCHANGED <<settings, data, vault, tasks, clock, saves, unloaded>>

\* this.findMatcherForFile(file) for a file with the drawn basename
CallFindMatcherForFile ==
    /\ call.op = "none"
    /\ call' = [call EXCEPT !.op = "findMatcherForFile",
                            !.index = findMatcherIndex(call.basename),
                            !.result = (findMatcherForFile(call.basename) # NoMatcher)]
    /\ UNCHANGED <<settings, data, vault, tasks, clock, saves, unloaded>>

NextMatch ==
    \/ CallFileMatchesRule
    \/ CallFindMatcherForFile

SpecMatch == InitMatch /\ [][NextMatch]_vars

-----------------------------------------------------------------------------
(* Direct calls of the resolver: rule lists drawn from RuleUniverse, any    *)
(* basename, both caseSensitive values                                      *)

NameAlphabet == {"T", "t", "o"}

InitResolve ==
    /\ data \in {[caseSensitive |-> cs, matchers |-> ms] :
                    cs \in BOOLEAN, ms \in SeqsUpTo(RuleUniverse, MaxRules)}
    /\ settings = loadSettings(data)
    /\ vault = (PathToA :> TemplateA) @@ (PathToB :> TemplateB)
    /\ clock = [year |-> 2024, month |-> 12, day |-> 19, hour |-> 9, minute |-> 5]
    /\ tasks = [h \in Handlers |-> IdleTask]
    /\ saves = NoSaves
    /\ unloaded = <<>>
    /\ call \in {[NoCall EXCEPT !.basename = b] : b \in StringsUpTo(NameAlphabet, MaxNameLen)}

NextResolve == CallFindMatcherForFile

SpecResolve == InitResolve /\ [][NextResolve]_vars

-----------------------------------------------------------------------------
(* Events on a note that is itself the template of the rule it matches, next *)
(* to rules with a template of their own                                    *)

FrameRules ==
    { <<Matcher(<<"T", "o">>, <<"T", "o", ".", "m", "d">>, "prefix")>>,
      <<Matcher(<<"x">>, <<"x", ".", "m", "d">>, "prefix"),
        Matcher(<<"o">>, PathToB, "contains")>>,
      <<Matcher(<<"T", "o">>, PathToA, "prefix")>>,
      <<Matcher(<<"t", "o">>, PathMissing, "suffix")>> }

InitFrame ==
    /\ data \in {[templateOnRename |-> r, caseSensitive |-> cs, matchers |-> ms] :
                    r \in BOOLEAN, cs \in BOOLEAN, ms \in FrameRules}
    /\ settings = loadSettings(data)
    /\ vault = (PathToA :> TemplateA) @@ (PathToB :> TemplateB) @@ (PathBystander :> <<"z">>)
    /\ clock = [year |-> 2024, month |-> 12, day |-> 19, hour |-> 9, minute |-> 5]
    /\ tasks = [h \in Handlers |-> IdleTask]
    /\ saves = NoSaves
    /\ unloaded = <<>>
    /\ call = NoCall

SpecFrame == InitFrame /\ [][Next]_vars

-----------------------------------------------------------------------------
(* A create event and a rename event, the second emitted while the first    *)
(* handler may still be suspended: "h1" handles the create, "h2" the rename *)
(* of the created note or of the template t/A.md, and their steps interleave *)

RacePaths == { <<"x", ".", "m", "d">>, <<"T", "o", ".", "m", "d">> }

RaceRules ==
    { <<Matcher(<<"x">>, PathToA, "prefix"), Matcher(<<"o">>, PathToB, "contains")>>,
      <<Matcher(<<"o">>, PathToB, "contains")>>,
      <<Matcher(<<"T", "o">>, PathToA, "prefix"), Matcher(<<"x">>, PathMissing, "prefix")>> }

InitRace ==
    /\ data \in {[templateOnRename |-> r, matchers |-> ms] : r \in BOOLEAN, ms \in RaceRules}
    /\ settings = loadSettings(data)
    /\ vault = (PathToA :> TemplateA) @@ (PathToB :> TemplateB)
    /\ clock = [year |-> 2024, month |-> 12, day |-> 19, hour |-> 9, minute |-> 5]
    /\ tasks = [h \in Handlers |-> IdleTask]
    /\ saves = NoSaves
    /\ unloaded = <<>>
    /\ call = NoCall

NextRace ==
    \/ \E p \in RacePaths, c \in NewContents :
          tasks["h1"].kind = "none" /\ OnCreate("h1", p, c)
    \/ \E old \in RacePaths \cup {PathToA}, new \in RacePaths :
          /\ tasks["h1"].kind = "create" /\ tasks["h2"].kind = "none"
          /\ OnRename("h2", old, new)
    \/ \E h \in Handlers : ReadTemplate(h)
    \/ \E h \in Handlers : ReadFile(h)
    \/ \E h \in Handlers : Modify(h)

SpecRace == InitRace /\ [][NextRace]_vars

-----------------------------------------------------------------------------
(* The vault changing under a running handler: the host removes a file      *)
(* between two of the handler's awaits, and the storage call on it fails    *)

\* the host removes file p from the vault while a handler is suspended
HostDelete(p) ==
    /\ ~ Quiet
    /\ p \in DOMAIN vault
    /\ vault' = [q \in DOMAIN vault \ {p} |-> vault[q]]
    /\ UNCHANGED <<settings, data, tasks, clock, call, saves, unloaded>>

InitFault ==
    /\ data \in {[templateOnRename |-> r, caseSensitive |-> FALSE, matchers |-> <<m>>] :
                    r \in BOOLEAN, m \in RuleUniverse}
    /\ settings = loadSettings(data)
    /\ vault = (PathToA :> TemplateA) @@ (PathToB :> TemplateB)
    /\ clock = [year |-> 2024, month |-> 12, day |-> 19, hour |-> 9, minute |-> 5]
    /\ tasks = [h \in Handlers |-> IdleTask]
    /\ saves = NoSaves
    /\ unloaded = <<>>
    /\ call = NoCall

NextFault ==
    \/ \E p \in NotePaths, c \in NewContents : Quiet /\ OnCreate("h1", p, c)
    \/ \E old \in NotePaths, new \in NotePaths : Quiet /\ OnRename("h1", old, new)
    \/ ReadTemplate("h1")
    \/ ReadFile("h1")
    \/ Modify("h1")
    \/ \E p \in {PathToA, PathToB} \cup NotePaths : HostDelete(p)

SpecFault == InitFault /\ [][NextFault]_vars

-----------------------------------------------------------------------------
(* Direct calls of the renderer: template contents put together from tokens, *)
(* stray braces and plain text; two configured date formats                  *)

\* the pieces template contents are made of
TemplateChunks ==
    { <<"{", "{", "d", "a", "t", "e", "}", "}">>,
      <<"{", "{", "t", "i", "m", "e", "}", "}">>,
      <<"{", "{", "d", "a", "t", "e", ":", "D", "D", "}", "}">>,
      <<"{", "{", "t", "i", "m", "e", ":", "H", "H", "}", "}">>,
      <<"{", "{", "d", "a", "t", "e", ":", "{", "{", "}", "}">>,
      <<"t", "i", "m", "e", "}", "}">>,
      <<"{", "{", "x", "}", "}">>,
      <<"{">>,
      <<"-">>,
      <<"\n">> }

RECURSIVE Flatten(_)
Flatten(chunks) ==
    IF chunks = <<>> THEN <<>> ELSE Head(chunks) \o Flatten(Tail(chunks))

Templates == {Flatten(cs) : cs \in SeqsUpTo(TemplateChunks, MaxChunks)}

DateFormats == { <<"Y", "Y", "Y", "Y", "-", "M", "M", "-", "D", "D">>, <<"D", "D", "/", "M", "M">> }

NoRender == [op |-> "none", content |-> <<>>, result |-> <<>>]

InitRender ==
    /\ data \in {[dateFormat |-> f] : f \in DateFormats}
    /\ settings = loadSettings(data)
    /\ vault = (PathToA :> TemplateA)
    /\ clock = [year |-> 2024, month |-> 12, day |-> 19, hour |-> 9, minute |-> 5]
    /\ tasks = [h \in Handlers |-> IdleTask]
    /\ saves = NoSaves
    /\ unloaded = <<>>
    /\ call \in {[NoRender EXCEPT !.content = c] : c \in Templates}

\* this.evaluateTemplate(content)
CallEvaluateTemplate ==
    /\ call.op = "none"
    /\ call' = [call EXCEPT !.op = "evaluateTemplate", !.result = evaluateTemplate(call.content)]
    /\ UNCHANGED <<settings, data, vault, tasks, clock, saves, unloaded>>

\* this.replaceDates(content)
CallReplaceDates ==
    /\ call.op = "none"
    /\ call' = [call EXCEPT !.op = "replaceDates", !.result = replaceDates(call.content)]
    /\ UNCHANGED <<settings, data, vault, tasks, clock, saves, unloaded>>

\* this.replaceTimes(content)
CallReplaceTimes ==
    /\ call.op = "none"
    /\ call' = [call EXCEPT !.op = "replaceTimes", !.result = replaceTimes(call.content)]
    /\ UNCHANGED <<settings, data, vault, tasks, clock, saves, unloaded>>

NextRender ==
    \/ CallEvaluateTemplate
    \/ CallReplaceDates
    \/ CallReplaceTimes

SpecRender == InitRender /\ [][NextRender]_vars

-----------------------------------------------------------------------------
(* The plugin's life cycle and its settings tab: onload, display() and the   *)
(* onChange / onClick callbacks of the tab, onunload                         *)

\* the rule the Add button and display() push
EmptyMatcher == Matcher(<<>>, <<>>, "prefix")

RECURSIVE collapseSlashes(_)
collapseSlashes(path) ==
    IF Len(path) < 2 THEN path
    ELSE IF path[1] = "/" /\ path[2] = "/" THEN collapseSlashes(Tail(path))
    ELSE <<Head(path)>> \o collapseSlashes(Tail(path))

\* normalizePath(value): runs of "/" become one, a leading and a trailing "/" are
\* removed, the empty path is the root "/"
normalizePath(path) ==
    LET c == collapseSlashes(path)
        a == IF c # <<>> /\ Head(c) = "/" THEN Tail(c) ELSE c
        b == IF a # <<>> /\ a[Len(a)] = "/" THEN SubSeq(a, 1, Len(a) - 1) ELSE a
    IN  IF b = <<>> THEN <<"/">> ELSE b

\* vault.getFolderByPath(folder): some file lies below the folder
getFolderByPath(folder) ==
    \E p \in DOMAIN vault : folder = <<"/">> \/ startsWith(p, folder \o <<"/">>)

\* Vault.recurseChildren(templateFolder, ...): the files below the folder
recurseChildren(folder) ==
    {p \in DOMAIN vault : folder = <<"/">> \/ startsWith(p, folder \o <<"/">>)}

\* what the text fields and dropdowns of the tab are set to
FolderInputs == { <<"t", "/">>, <<"/", "/", "T", "e", "m", "p", "l", "a", "t", "e", "s">> }

TimeFormats == { <<"H", "H", ":", "m", "m">>, <<"H", "H">> }

MatchStringInputs == { <<"T", "o">>, <<>> }

MatchMethodOptions == { "prefix", "contains", "suffix" }

\* the data.json the plugin starts with
PersistedInit ==
    { <<>>,
      [caseSensitive |-> FALSE],
      [templateOnRename |-> TRUE, matchers |-> <<Matcher(<<"T", "o">>, PathToA, "prefix")>>],
      [dateFormat |-> <<"D", "D", "/", "M", "M">>, matchers |-> <<>>] }

\* the plugin instance and its tab: the phase, the folder, the rule rows and the
\* options of the template dropdowns the tab was drawn with, what loadData
\* returned, and the settings before onunload
NoPhase == [op |-> "constructed", cycled |-> FALSE, before |-> NoSettings, folder |-> <<>>,
            rows |-> 0, options |-> {}, read |-> <<>>]

TabOpen == call.op = "display"

Loaded == call.op \in {"loadSettings", "display"}

InitSettings ==
    /\ data \in PersistedInit
    /\ settings = NoSettings
    /\ vault = (PathToA :> TemplateA)
    /\ clock = [year |-> 2024, month |-> 12, day |-> 19, hour |-> 9, minute |-> 5]
    /\ tasks = [h \in Handlers |-> IdleTask]
    /\ saves = NoSaves
    /\ unloaded = <<>>
    /\ call = NoPhase

\* onload: loadSettings
Onload ==
    /\ call.op \in {"constructed", "onunload"}
    /\ settings' = loadSettings(data)
    /\ call' = [call EXCEPT !.op = "loadSettings", !.read = data]
    /\ UNCHANGED <<data, vault, tasks, clock, saves, unloaded>>

\* saveSettings of the loaded plugin: saveData(this.settings) is issued; the caller
\* is suspended until the write is done, and draws the tab again then when redraw
\* is set
saveSettings(s, redraw) ==
    [issued |-> saves.issued + 1,
     pending |-> Append(saves.pending, [settings |-> s, redraw |-> redraw, plugin |-> 0])]

\* the plugin object x of a suspended call after the loaded one has been unloaded
Dropped(x) == IF x = 0 THEN Len(unloaded) + 1 ELSE x

\* onunload: saveSettings is started, the host does not wait for it; the plugin
\* object is dropped with its tab, and the callbacks and handlers suspended in it
\* go on with it and its this.settings when they resume
Onunload ==
    /\ Loaded
    /\ saves.issued < MaxSaves
    /\ saves' = [issued |-> saves.issued + 1,
                 pending |-> Append([k \in 1..Len(saves.pending) |->
                                        [saves.pending[k] EXCEPT !.plugin = Dropped(@)]],
                                    [settings |-> settings, redraw |-> FALSE,
                                     plugin |-> Dropped(0)])]
    /\ unloaded' = Append(unloaded, settings)
    /\ settings' = NoSettings
    /\ call' = [call EXCEPT !.op = "onunload", !.cycled = TRUE, !.before = settings]
    /\ tasks' = [h \in Handlers |->
                    IF Running(h) THEN [tasks[h] EXCEPT !.plugin = Dropped(@)]
                    ELSE tasks[h]]
    /\ UNCHANGED <<data, vault, clock>>

\* display(): the part that changes the settings; nothing is saved
display(s) ==
    IF Len(s.matchers) = 0 THEN [s EXCEPT !.matchers = <<EmptyMatcher>>] ELSE s

\* the state of the tab after display() has drawn it
\* (a template dropdown has no option and no onChange when the folder is missing)
Drawn(s) == [call EXCEPT !.op = "display", !.cycled = FALSE, !.before = NoSettings,
                         !.folder = s.templateFolder, !.rows = Len(display(s).matchers),
                         !.options = IF getFolderByPath(s.templateFolder)
                                     THEN recurseChildren(s.templateFolder) ELSE {}]

\* the user opens the settings tab
Display ==
    /\ Loaded
    /\ settings' = display(settings)
    /\ call' = Drawn(settings)
    /\ UNCHANGED <<data, vault, tasks, clock, saves, unloaded>>

\* an onChange callback up to its await: the assignment, saveSettings started
Change(s) ==
    /\ TabOpen
    /\ saves.issued < MaxSaves
    /\ settings' = s
    /\ saves' = saveSettings(s, FALSE)
    /\ UNCHANGED <<data, call, vault, tasks, clock, unloaded>>

SetTemplateFolder(value) == Change([settings EXCEPT !.templateFolder = normalizePath(value)])

SetDateFormat(value) == Change([settings EXCEPT !.dateFormat = value])

SetTimeFormat(value) == Change([settings EXCEPT !.timeFormat = value])

SetTemplateOnRename(value) == Change([settings EXCEPT !.templateOnRename = value])

SetCaseSensitive(value) == Change([settings EXCEPT !.caseSensitive = value])

\* the callbacks of a rule row exist for the rows the tab was drawn with; on a row
\* whose rule is gone the assignment throws and nothing is saved
SetMatchMethod(index, value) ==
    /\ TabOpen
    /\ index \in 1..call.rows
    /\ index <= Len(settings.matchers)
    /\ Change([settings EXCEPT !.matchers[index].matchMethod = value])

SetMatchString(index, value) ==
    /\ TabOpen
    /\ index \in 1..call.rows
    /\ index <= Len(settings.matchers)
    /\ Change([settings EXCEPT !.matchers[index].matchString = value])

\* the template dropdown offers the files that were below the template folder
\* when the tab was drawn
SetTemplatePath(index, value) ==
    /\ TabOpen
    /\ index \in 1..call.rows
    /\ index <= Len(settings.matchers)
    /\ value \in call.options
    /\ Change([settings EXCEPT !.matchers[index].templatePath = value])

\* the Add button up to its await: push, saveSettings started
AddMatcher ==
    /\ TabOpen
    /\ saves.issued < MaxSaves
    /\ Len(settings.matchers) < MaxRules
    /\ settings' = [settings EXCEPT !.matchers = Append(@, EmptyMatcher)]
    /\ saves' = saveSettings(settings', TRUE)
    /\ UNCHANGED <<data, call, vault, tasks, clock, unloaded>>

\* Array.prototype.splice(index, 1), index counted from 1
splice(matchers, index) ==
    IF index > Len(matchers) THEN matchers
    ELSE SubSeq(matchers, 1, index - 1) \o SubSeq(matchers, index + 1, Len(matchers))

\* a rule's Delete button up to its await: splice(index, 1), saveSettings started
DeleteMatcher(index) ==
    /\ TabOpen
    /\ saves.issued < MaxSaves
    /\ index \in 1..call.rows
    /\ settings' = [settings EXCEPT !.matchers = splice(@, index)]
    /\ saves' = saveSettings(settings', TRUE)
    /\ UNCHANGED <<data, call, vault, tasks, clock, unloaded>>

\* the host writes one of the issued saves to data.json, in no given order; the
\* callback that awaited it resumes: Add and Delete call display() of their tab,
\* which for an unloaded plugin object changes that object's settings only
SaveData(i) ==
    /\ i \in 1..Len(saves.pending)
    /\ data' = saves.pending[i].settings
    /\ saves' = [saves EXCEPT !.pending = SubSeq(@, 1, i - 1) \o SubSeq(@, i + 1, Len(@))]
    /\ LET x == saves.pending[i].plugin
       IN  IF ~ saves.pending[i].redraw THEN UNCHANGED <<settings, call, unloaded>>
           ELSE IF x = 0
           THEN /\ settings' = display(settings)
                /\ call' = Drawn(settings)
                /\ UNCHANGED unloaded
           ELSE /\ unloaded' = [unloaded EXCEPT ![x] = display(@)]
                /\ UNCHANGED <<settings, call>>
    /\ UNCHANGED <<vault, tasks, clock>>

NextSettings ==
    \/ Onload
    \/ Onunload
    \/ Display
    \/ \E v \in FolderInputs : SetTemplateFolder(v)
    \/ \E v \in DateFormats : SetDateFormat(v)
    \/ \E v \in TimeFormats : SetTimeFormat(v)
    \/ \E v \in BOOLEAN : SetTemplateOnRename(v)
    \/ \E v \in BOOLEAN : SetCaseSensitive(v)
    \/ \E i \in 1..MaxRules, v \in MatchMethodOptions : SetMatchMethod(i, v)
    \/ \E i \in 1..MaxRules, v \in MatchStringInputs : SetMatchString(i, v)
    \/ \E i \in 1..MaxRules, v \in NotePaths \cup DOMAIN vault : SetTemplatePath(i, v)
    \/ AddMatcher
    \/ \E i \in 1..MaxRules : DeleteMatcher(i)
    \/ \E i \in 1..MaxSaves : SaveData(i)

SpecSettings == InitSettings /\ [][NextSettings]_vars

-----------------------------------------------------------------------------
(* The settings tab used while a handler is suspended: the tab is open and  *)
(* its callbacks run between the steps of the handler; the plugin may be    *)
(* unloaded, and loaded again, before the handler resumes                   *)

EditPaths == { <<"T", "o", ".", "m", "d">>, <<"x", ".", "m", "d">> }

TemplateTime == <<"{", "{", "t", "i", "m", "e", "}", "}">>

EditRules ==
    { <<Matcher(<<"T", "o">>, PathToA, "prefix")>>,
      <<Matcher(<<"x">>, PathToB, "prefix")>> }

InitEdit ==
    /\ data \in {[templateOnRename |-> TRUE, matchers |-> ms] : ms \in EditRules}
    /\ settings = loadSettings(data)
    /\ vault = (PathToA :> TemplateA) @@ (PathToB :> TemplateTime)
    /\ clock = [year |-> 2024, month |-> 12, day |-> 19, hour |-> 9, minute |-> 5]
    /\ tasks = [h \in Handlers |-> IdleTask]
    /\ saves = NoSaves
    /\ unloaded = <<>>
    /\ call = [NoPhase EXCEPT !.op = "display", !.folder = settings.templateFolder,
                             !.rows = Len(settings.matchers),
                             !.options = recurseChildren(settings.templateFolder),
                             !.read = data]

NextEdit ==
    \/ \E p \in EditPaths, c \in NewContents : Loaded /\ Quiet /\ OnCreate("h1", p, c)
    \/ \E old \in EditPaths, new \in EditPaths : Loaded /\ Quiet /\ OnRename("h1", old, new)
    \/ ReadTemplate("h1")
    \/ ReadFile("h1")
    \/ Modify("h1")
    \/ \E v \in DateFormats : ~ Quiet /\ SetDateFormat(v)
    \/ \E v \in TimeFormats : ~ Quiet /\ SetTimeFormat(v)
    \/ \E v \in BOOLEAN : ~ Quiet /\ SetTemplateOnRename(v)
    \/ \E v \in BOOLEAN : ~ Quiet /\ SetCaseSensitive(v)
    \/ \E v \in MatchStringInputs : ~ Quiet /\ SetMatchString(1, v)
    \/ ~ Quiet /\ Onunload
    \/ ~ Quiet /\ Onload
    \/ \E i \in 1..MaxSaves : SaveData(i)

SpecEdit == InitEdit /\ [][NextEdit]_vars

-----------------------------------------------------------------------------
(* Rendering while the clock advances: every replacement callback calls     *)
(* moment() itself, so each token is formatted from the time of its own call *)

\* the days of a month of the Gregorian calendar
daysInMonth(year, month) ==
    IF month = 2
    THEN IF year % 4 = 0 /\ (year % 100 # 0 \/ year % 400 = 0) THEN 29 ELSE 28
    ELSE IF month \in {4, 6, 9, 11} THEN 30 ELSE 31

\* the clock one minute later
NextMinute(t) ==
    IF t.minute < 59 THEN [t EXCEPT !.minute = @ + 1]
    ELSE IF t.hour < 23 THEN [t EXCEPT !.minute = 0, !.hour = @ + 1]
    ELSE IF t.day < daysInMonth(t.year, t.month)
    THEN [t EXCEPT !.minute = 0, !.hour = 0, !.day = @ + 1]
    ELSE IF t.month < 12 THEN [t EXCEPT !.minute = 0, !.hour = 0, !.day = 1, !.month = @ + 1]
    ELSE [t EXCEPT !.minute = 0, !.hour = 0, !.day = 1, !.month = 1, !.year = @ + 1]

\* moment() at the call number n + 1 of a rendering during which the minute
\* changes after tickAt calls
momentAt(n, tickAt) == IF n < tickAt THEN clock ELSE NextMinute(clock)

\* replaceDates, counting the calls of moment(): the output and the calls so far
RECURSIVE replaceDatesAt(_, _, _)
replaceDatesAt(content, n, tickAt) ==
    IF content = <<>> THEN [out |-> <<>>, calls |-> n]
    ELSE LET k == bracketCapture(content)
         IN  IF k = 0
             THEN LET r == replaceDatesAt(Tail(content), n, tickAt)
                  IN  [r EXCEPT !.out = <<Head(content)>> \o @]
             ELSE LET match == SubSeq(content, 1, k + 4)
                      bracketContent == SubSeq(content, 3, k + 2)
                      rest == SubSeq(content, k + 5, Len(content))
                      isDate == bracketContent = <<"d", "a", "t", "e">>
                      isDateFormat == startsWith(bracketContent, <<"d", "a", "t", "e", ":">>)
                      out == IF isDate
                             THEN momentFormat(settings.dateFormat, momentAt(n, tickAt))
                             ELSE IF isDateFormat
                             THEN momentFormat(SubSeq(bracketContent, 6, k), momentAt(n, tickAt))
                             ELSE match
                      r == replaceDatesAt(rest, IF isDate \/ isDateFormat THEN n + 1 ELSE n, tickAt)
                  IN  [r EXCEPT !.out = out \o @]

\* replaceTimes, counting the calls of moment()
RECURSIVE replaceTimesAt(_, _, _)
replaceTimesAt(content, n, tickAt) ==
    IF content = <<>> THEN [out |-> <<>>, calls |-> n]
    ELSE LET k == bracketCapture(content)
         IN  IF k = 0
             THEN LET r == replaceTimesAt(Tail(content), n, tickAt)
                  IN  [r EXCEPT !.out = <<Head(content)>> \o @]
             ELSE LET match == SubSeq(content, 1, k + 4)
                      bracketContent == SubSeq(content, 3, k + 2)
                      rest == SubSeq(content, k + 5, Len(content))
                      isTime == bracketContent = <<"t", "i", "m", "e">>
                      isTimeFormat == startsWith(bracketContent, <<"t", "i", "m", "e", ":">>)
                      out == IF isTime
                             THEN momentFormat(settings.timeFormat, momentAt(n, tickAt))
                             ELSE IF isTimeFormat
                             THEN momentFormat(SubSeq(bracketContent, 6, k), momentAt(n, tickAt))
                             ELSE match
                      r == replaceTimesAt(rest, IF isTime \/ isTimeFormat THEN n + 1 ELSE n, tickAt)
                  IN  [r EXCEPT !.out = out \o @]

\* evaluateTemplate during which the minute changes after tickAt calls of moment()
evaluateTemplateAt(template, tickAt) ==
    LET dates == replaceDatesAt(template, 0, tickAt)
    IN  replaceTimesAt(dates.out, dates.calls, tickAt)

Clocks ==
    { [year |-> 2024, month |-> 12, day |-> 19, hour |-> 9, minute |-> 5],
      [year |-> 2024, month |-> 12, day |-> 31, hour |-> 23, minute |-> 59],
      [year |-> 2024, month |-> 2, day |-> 29, hour |-> 23, minute |-> 59] }

InitClock ==
    /\ data \in {[dateFormat |-> f] : f \in DateFormats}
    /\ settings = loadSettings(data)
    /\ vault = (PathToA :> TemplateA)
    /\ clock \in Clocks
    /\ tasks = [h \in Handlers |-> IdleTask]
    /\ saves = NoSaves
    /\ unloaded = <<>>
    /\ call \in {[NoRender EXCEPT !.content = c] : c \in Templates}

\* this.evaluateTemplate(content) while the clock runs: the minute changes before
\* the call, after it, or between two of its calls of moment()
CallEvaluateTemplateAt ==
    /\ call.op = "none"
    /\ \E tickAt \in 0..(MaxChunks + 1) :
          LET r == evaluateTemplateAt(call.content, tickAt)
          IN  /\ call' = [call EXCEPT !.op = "evaluateTemplate", !.result = r.out]
              /\ clock' = IF tickAt <= r.calls THEN NextMinute(clock) ELSE clock
    /\ UNCHANGED <<settings, data, vault, tasks, saves, unloaded>>

NextClock == CallEvaluateTemplateAt

SpecClock == InitClock /\ [][NextClock]_vars

-----------------------------------------------------------------------------
(* What the properties compare the code against: matching stated            *)
(* element by element, independently of startsWith / endsWith / includes    *)

IsBlank(s) == \A i \in 1..Len(s) : IsWhiteSpace(s[i])

IsPrefixOf(p, s) == Len(p) <= Len(s) /\ \A i \in 1..Len(p) : s[i] = p[i]

IsSuffixOf(p, s) == Len(p) <= Len(s) /\ \A i \in 1..Len(p) : s[Len(s) - Len(p) + i] = p[i]

OccursIn(p, s) == \E off \in 0..(Len(s) - Len(p)) : \A i \in 1..Len(p) : s[off + i] = p[i]

Normalized(s, caseSensitive) == IF caseSensitive THEN s ELSE toLowerCase(s)

\* the rule matches the basename, as section 4.1 of the specification states it
RuleMatches(basename, rule, caseSensitive) ==
    LET b == Normalized(basename, caseSensitive)
        m == Normalized(rule.matchString, caseSensitive)
    IN  /\ ~ IsBlank(rule.matchString)
        /\ \/ rule.matchMethod = "prefix" /\ IsPrefixOf(m, b)
           \/ rule.matchMethod = "suffix" /\ IsSuffixOf(m, b)
           \/ rule.matchMethod = "contains" /\ OccursIn(m, b)

\* the index of the first rule of the list matching the basename, 0 for none
FirstMatch(basename, rules, caseSensitive) ==
    IF \E i \in 1..Len(rules) : RuleMatches(basename, rules[i], caseSensitive)
    THEN CHOOSE i \in 1..Len(rules) :
            /\ RuleMatches(basename, rules[i], caseSensitive)
            /\ \A j \in 1..(i - 1) : ~ RuleMatches(basename, rules[j], caseSensitive)
    ELSE 0

\* the handler invocation the handler properties speak of
H == tasks["h1"]

\* the rule list and case setting at the moment the event was received
RuleOf(t) ==
    LET i == FirstMatch(Basename(t.file), t.settings0.matchers, t.settings0.caseSensitive)
    IN  IF i = 0 THEN NoMatcher ELSE t.settings0.matchers[i]

HasRule(t) ==
    FirstMatch(Basename(t.file), t.settings0.matchers, t.settings0.caseSensitive) # 0

OldNameMatches(t) ==
    RuleMatches(Basename(t.oldPath), RuleOf(t), t.settings0.caseSensitive)

\* the rendered content of the template of the invocation's rule: "" when the
\* template does not exist
Rendered(t) ==
    IF RuleOf(t).templatePath \in DOMAIN t.vault0
    THEN evaluateTemplate(t.vault0[RuleOf(t).templatePath])
    ELSE <<>>

BlankLine == <<"\n", "\n">>

-----------------------------------------------------------------------------
(* C1 *)

\* C1: findMatcherForFile returns the first rule, in list order, that matches the
\* basename under the caseSensitive setting, also when a later rule matches too,
\* and none when no rule matches or the list is empty.
C1_FirstMatchWins ==
    call.op = "findMatcherForFile" =>
        /\ call.index = FirstMatch(call.basename, settings.matchers, settings.caseSensitive)
        /\ call.result = (call.index # 0)

\* two rules match the basename and the resolver returned the first of them
C1_Witness ==
    /\ call.op = "findMatcherForFile"
    /\ call.index = 1
    /\ Len(settings.matchers) = 2
    /\ settings.matchers[1] # settings.matchers[2]
    /\ RuleMatches(call.basename, settings.matchers[2], settings.caseSensitive)

-----------------------------------------------------------------------------
(* C2 *)

\* C2 as stated: after templateOnCreate on a note whose basename a rule matches, the
\* note's content is exactly the rendered template, nothing before or after it.
C2_Original ==
    (H.kind = "create" /\ H.pc = "done" /\ HasRule(H)) => vault[H.file] = Rendered(H)

\* C2 amended: after templateOnCreate on a note whose basename a rule with a
\* non-empty templatePath matches, the note's content is the rendered template, a
\* blank line ("\n\n"), then the content the note was created with.
C2_CreatePrepends ==
    (H.kind = "create" /\ H.pc = "done" /\ HasRule(H) /\ RuleOf(H).templatePath # <<>>)
        => vault[H.file] = Rendered(H) \o BlankLine \o H.vault0[H.file]

\* an empty note created under the date template ends as "-2024-12-19\n\n"
C2_Witness ==
    /\ H.kind = "create" /\ H.pc = "done" /\ HasRule(H)
    /\ RuleOf(H).templatePath = PathToA
    /\ H.vault0[H.file] = <<>>
    /\ vault[H.file] = <<"-", "2", "0", "2", "4", "-", "1", "2", "-", "1", "9", "\n", "\n">>

-----------------------------------------------------------------------------
(* C3 *)

\* C3: after templateOnRename with the setting enabled, a rule matching the new
\* basename and not the old one, the note's content is the rendered template, "\n\n",
\* then the content the note had before the handler.
\* Violated: the handler tests oldName.split("/").pop().slice(0, -3), which is the
\* old basename only when the old extension has two characters (see C20); renaming
\* "tox.c" to "To.md" under the suffix rule "to" leaves the note untouched.
C3_RenamePrepends ==
    (/\ H.kind = "rename" /\ H.pc = "done"
     /\ H.settings0.templateOnRename
     /\ HasRule(H) /\ ~ OldNameMatches(H))
        => vault[H.file] = Rendered(H) \o BlankLine \o H.vault0[H.file]

-----------------------------------------------------------------------------
(* C4 *)

\* C4: in templateOnRename, when the rule matched by the new basename also matches
\* the old basename, the handler writes nothing and the note is left as it was.
\* Violated for the same reason (see C20): renaming "to.txt" to "To.md" under the
\* suffix rule "to" tests "to.t" and prepends the template.
C4_IdempotenceGuard ==
    (H.kind = "rename" /\ HasRule(H) /\ OldNameMatches(H))
        => /\ H.pc = "done"
           /\ H.writes = 0
           /\ vault[H.file] = H.vault0[H.file]

-----------------------------------------------------------------------------
(* C5 *)

\* C5: with templateOnRename disabled the rename handler reads nothing, writes
\* nothing and leaves the note as it was, also when a rule matches the new basename
\* and not the old one.
C5_RenameDisabled ==
    (H.kind = "rename" /\ ~ H.settings0.templateOnRename)
        => /\ H.pc = "done"
           /\ H.reads = <<>>
           /\ H.writes = 0
           /\ vault[H.file] = H.vault0[H.file]

\* disabled, and the rename is one that would be templated were it enabled
C5_Witness ==
    /\ H.kind = "rename" /\ H.pc = "done"
    /\ ~ H.settings0.templateOnRename
    /\ HasRule(H) /\ ~ OldNameMatches(H)
    /\ RuleOf(H).templatePath \in DOMAIN H.vault0

-----------------------------------------------------------------------------
(* C6 *)

\* C6: when no rule matches the basename of the created note or the new basename of
\* the renamed note, the handler writes nothing and the note is left as it was,
\* whatever templateOnRename and caseSensitive are.
C6_NoRuleNoWrite ==
    (H.kind \in {"create", "rename"} /\ ~ HasRule(H))
        => /\ H.pc = "done"
           /\ H.writes = 0
           /\ vault[H.file] = H.vault0[H.file]

\* a rename with the setting on, a non-empty rule list and no rule for the new name
C6_Witness ==
    /\ H.kind = "rename" /\ H.pc = "done"
    /\ H.settings0.templateOnRename
    /\ ~ H.settings0.caseSensitive
    /\ H.settings0.matchers # <<>>
    /\ ~ HasRule(H)

-----------------------------------------------------------------------------
(* C7 *)

\* C7: a rule whose matchString is empty or whitespace-only matches no basename,
\* whatever its method and caseSensitive, and the resolver never returns it.
C7_BlankNeverMatches ==
    IsBlank(settings.matchers[1].matchString) =>
        /\ call.op = "fileMatchesRule" => call.result = FALSE
        /\ call.op = "findMatcherForFile" => call.index = 0

\* a whitespace-only prefix rule was tried on a basename that starts with it
C7_Witness ==
    /\ call.op = "fileMatchesRule"
    /\ settings.matchers[1].matchString = <<" ">>
    /\ settings.matchers[1].matchMethod = "prefix"
    /\ call.basename # <<>> /\ call.basename[1] = " "
    /\ call.result = FALSE

-----------------------------------------------------------------------------
(* C8 *)

\* C8 as stated: for every basename and every prefix rule, the rule matches iff the
\* basename starts with the matchString, both lowercased when caseSensitive is off.
C8_Original ==
    (call.op = "fileMatchesRule" /\ settings.matchers[1].matchMethod = "prefix")
        => call.result =
              IsPrefixOf(Normalized(settings.matchers[1].matchString, settings.caseSensitive),
                         Normalized(call.basename, settings.caseSensitive))

\* C8 amended: for every basename and every prefix rule whose matchString is not
\* blank (empty or whitespace-only), the rule matches iff the basename starts with
\* the matchString, both lowercased when caseSensitive is off.
C8_PrefixIffStartsWith ==
    (/\ call.op = "fileMatchesRule"
     /\ settings.matchers[1].matchMethod = "prefix"
     /\ ~ IsBlank(settings.matchers[1].matchString))
        => call.result =
              IsPrefixOf(Normalized(settings.matchers[1].matchString, settings.caseSensitive),
                         Normalized(call.basename, settings.caseSensitive))

\* a prefix rule matched a longer basename that starts with it only once lowercased
C8_Witness ==
    /\ call.op = "fileMatchesRule"
    /\ settings.matchers[1].matchMethod = "prefix"
    /\ ~ IsBlank(settings.matchers[1].matchString)
    /\ ~ settings.caseSensitive
    /\ Len(call.basename) > Len(settings.matchers[1].matchString)
    /\ ~ IsPrefixOf(settings.matchers[1].matchString, call.basename)
    /\ call.result = TRUE

-----------------------------------------------------------------------------
(* C9 *)

\* C9: a suffix rule with a non-blank matchString matches exactly the basenames that
\* end with the case-normalized matchString, and a contains rule exactly those that
\* contain it at any position.
C9_SuffixAndContains ==
    (call.op = "fileMatchesRule" /\ ~ IsBlank(settings.matchers[1].matchString)) =>
        LET m == Normalized(settings.matchers[1].matchString, settings.caseSensitive)
            b == Normalized(call.basename, settings.caseSensitive)
        IN  /\ settings.matchers[1].matchMethod = "suffix" => call.result = IsSuffixOf(m, b)
            /\ settings.matchers[1].matchMethod = "contains" => call.result = OccursIn(m, b)

\* a contains rule matched in the middle of the basename only
C9_Witness ==
    /\ call.op = "fileMatchesRule"
    /\ settings.matchers[1].matchMethod = "contains"
    /\ ~ IsBlank(settings.matchers[1].matchString)
    /\ call.result = TRUE
    /\ ~ IsPrefixOf(Normalized(settings.matchers[1].matchString, settings.caseSensitive),
                    Normalized(call.basename, settings.caseSensitive))
    /\ ~ IsSuffixOf(Normalized(settings.matchers[1].matchString, settings.caseSensitive),
                    Normalized(call.basename, settings.caseSensitive))

-----------------------------------------------------------------------------
(* C10 *)

\* C10: with caseSensitive off the result is the one the matcher gives for the
\* lowercased basename and the lowercased matchString (it depends on nothing else);
\* with caseSensitive on a basename that differs from the matchString only in letter
\* case does not match.
C10_CaseNormalization ==
    call.op = "fileMatchesRule" =>
        LET rule == settings.matchers[1]
            lowered == [rule EXCEPT !.matchString = toLowerCase(rule.matchString)]
        IN  /\ ~ settings.caseSensitive =>
                 call.result = fileMatchesRule(toLowerCase(call.basename), lowered)
            /\ (/\ settings.caseSensitive
                /\ call.basename # rule.matchString
                /\ toLowerCase(call.basename) = toLowerCase(rule.matchString))
                 => call.result = FALSE

\* caseSensitive off: the lowercase rule "t" matched the basename "T..." by prefix
C10_Witness ==
    /\ call.op = "fileMatchesRule"
    /\ ~ settings.caseSensitive
    /\ settings.matchers[1].matchMethod = "prefix"
    /\ settings.matchers[1].matchString = <<"t">>
    /\ startsWith(call.basename, <<"T">>)
    /\ Len(call.basename) = 3
    /\ call.result = TRUE

-----------------------------------------------------------------------------
(* C11 *)

\* C11: a rule whose matchMethod is anything but prefix, suffix or contains matches
\* no basename: the call returns false (it completes, nothing is raised) for every
\* matchString and both caseSensitive values, and the resolver does not return it.
C11_UnknownMethodNeverMatches ==
    settings.matchers[1].matchMethod \notin {"prefix", "suffix", "contains"} =>
        /\ call.op = "fileMatchesRule" => call.result = FALSE
        /\ call.op = "findMatcherForFile" => call.index = 0

\* the method "Prefix" (not lowercase) was tried on a basename that starts with the
\* non-blank matchString
C11_Witness ==
    /\ call.op = "fileMatchesRule"
    /\ settings.matchers[1].matchMethod = "Prefix"
    /\ ~ IsBlank(settings.matchers[1].matchString)
    /\ IsPrefixOf(settings.matchers[1].matchString, call.basename)
    /\ call.result = FALSE

-----------------------------------------------------------------------------
(* C12 *)

\* the handler invocation applies its rule's template: a create under a rule with a
\* templatePath, or an enabled rename from a Markdown note the rule does not match
AppliesTemplate(t) ==
    /\ HasRule(t)
    /\ \/ t.kind = "create" /\ RuleOf(t).templatePath # <<>>
       \/ /\ t.kind = "rename" /\ t.settings0.templateOnRename
          /\ IsSuffixOf(<<".", "m", "d">>, t.oldPath)
          /\ ~ OldNameMatches(t)

\* C12: when the rule's templatePath names no existing note, getTemplateContent logs
\* the condition, reads nothing from storage and returns ""; the handler does not
\* fail, goes on to read the note and ends having written "\n\n" and the note's
\* content, as an empty template would give. Nothing is logged otherwise.
C12_MissingTemplate ==
    /\ (AppliesTemplate(H) /\ RuleOf(H).templatePath \notin DOMAIN H.vault0)
          => /\ H.logged
             /\ H.templateContent = <<>>
             /\ \A i \in 1..Len(H.reads) : H.reads[i] = H.file
             /\ H.pc \in {"readFile", "modify", "done"}
             /\ H.pc = "done" =>
                   /\ H.writes = 1
                   /\ vault[H.file] = BlankLine \o H.vault0[H.file]
    /\ H.logged => RuleOf(H).templatePath \notin DOMAIN H.vault0

\* a note created with content "m" under the rule whose template is missing ends
\* as "\n\nm"
C12_Witness ==
    /\ H.kind = "create" /\ H.pc = "done" /\ H.logged
    /\ RuleOf(H).templatePath = PathMissing
    /\ H.reads = <<H.file>>
    /\ vault[H.file] = <<"\n", "\n", "m">>

\* a rename to "x" under the rule whose templatePath is empty
C12_WitnessRename ==
    /\ H.kind = "rename" /\ H.pc = "done" /\ H.logged
    /\ RuleOf(H).templatePath = <<>>
    /\ H.writes = 1

-----------------------------------------------------------------------------
(* C13 *)

\* C13: no handler invocation ends with its failure handed to the host: a storage
\* call that fails during a handler (template read, note read, note write) is
\* caught and the handler ends normally.
\* Violated: neither the callbacks nor templateOnCreate / templateOnRename /
\* templateNote contain a try/catch, so a rejected vault.read or vault.modify
\* rejects the callback's promise. A note created under the prefix rule "To" and
\* removed before `await this.app.vault.read(file)` resumes fails the handler.
C13_NoFailureReachesHost ==
    \A h \in Handlers : tasks[h].pc # "failed"

-----------------------------------------------------------------------------
(* C14 *)

\* the number of places at which tok occurs in s
Count(tok, s) ==
    Cardinality({off \in 0..(Len(s) - Len(tok)) : \A i \in 1..Len(tok) : s[off + i] = tok[i]})

TokDate == <<"{", "{", "d", "a", "t", "e", "}", "}">>

TokTime == <<"{", "{", "t", "i", "m", "e", "}", "}">>

TokDateDD == <<"{", "{", "d", "a", "t", "e", ":", "D", "D", "}", "}">>

TokTimeHH == <<"{", "{", "t", "i", "m", "e", ":", "H", "H", "}", "}">>

\* C14: evaluateTemplate replaces every occurrence of {{date}}, {{date:<pattern>}},
\* {{time}} and {{time:<pattern>}}: none of them is left in the output, whatever
\* text surrounds it.
\* Violated: the scan /{{(.+?)}}/g starts a token at the leftmost "{{", so a token
\* that follows a brace is part of a longer, unrecognized match and is copied:
\* "{{{date}}" is rendered as "{{{date}}".
C14_EveryTokenReplaced ==
    call.op = "evaluateTemplate" =>
        \A tok \in {TokDate, TokTime, TokDateDD, TokTimeHH} : Count(tok, call.result) = 0

-----------------------------------------------------------------------------
(* C15 *)

\* rendering in one scan: each token of the content is looked at once, a date or
\* time token is replaced by its formatted value, every other token and all text
\* between tokens is copied
RECURSIVE SinglePass(_)
SinglePass(content) ==
    IF content = <<>> THEN <<>>
    ELSE LET k == bracketCapture(content)
         IN  IF k = 0 THEN <<Head(content)>> \o SinglePass(Tail(content))
             ELSE LET x == SubSeq(content, 3, k + 2)
                      out == IF x = <<"d", "a", "t", "e">>
                             THEN momentFormat(settings.dateFormat, clock)
                             ELSE IF x = <<"t", "i", "m", "e">>
                             THEN momentFormat(settings.timeFormat, clock)
                             ELSE IF \/ IsPrefixOf(<<"d", "a", "t", "e", ":">>, x)
                                     \/ IsPrefixOf(<<"t", "i", "m", "e", ":">>, x)
                             THEN momentFormat(SubSeq(x, 6, k), clock)
                             ELSE SubSeq(content, 1, k + 4)
                  IN  out \o SinglePass(SubSeq(content, k + 5, Len(content)))

\* C15: a bracketed token whose content is not date, time, date:... or time:... is
\* in the rendered output exactly as in the input, and so is all text outside the
\* date and time tokens: the output is the input with its date and time tokens
\* replaced and nothing else touched.
\* Violated: the time pass scans the output of the date pass, so text that stood
\* outside every token is rewritten when the output of a date token and that text
\* together form a time token: "{{date:{{}}time}}" is rendered as "09:05", not as
\* "{{time}}", and so is "{{date}}time}}" when the configured dateFormat is "{{".
C15_Original ==
    call.op = "evaluateTemplate" => call.result = SinglePass(call.content)

-----------------------------------------------------------------------------
(* C16 *)

\* C16: the date pass leaves every time token as it is and adds none, the time
\* pass does the same for date tokens, and evaluateTemplate gives what the two
\* passes give in the other order.
\* Violated: the passes run one after the other on the same text, so the output
\* of a date token is scanned by the time pass. For "{{date:{{}}time}}" the date
\* pass gives "{{time}}", which the time pass replaces by "09:05"; time pass
\* first, date pass second gives "{{time}}".
C16_Original ==
    /\ call.op = "replaceDates" =>
          \A tok \in {TokTime, TokTimeHH} : Count(tok, call.result) = Count(tok, call.content)
    /\ call.op = "replaceTimes" =>
          \A tok \in {TokDate, TokDateDD} : Count(tok, call.result) = Count(tok, call.content)
    /\ call.op = "evaluateTemplate" =>
          call.result = replaceDates(replaceTimes(call.content))

-----------------------------------------------------------------------------
(* C17 *)

\* the defaults as the specification lists them
StatedDefaults ==
    [templateFolder |-> <<"T", "e", "m", "p", "l", "a", "t", "e", "s">>,
     dateFormat |-> <<"Y", "Y", "Y", "Y", "-", "M", "M", "-", "D", "D">>,
     timeFormat |-> <<"H", "H", ":", "m", "m">>,
     templateOnRename |-> FALSE,
     caseSensitive |-> TRUE,
     matchers |-> <<>>]

\* C17: after loadSettings every configuration key holds the persisted value when
\* the persisted data has the key and the built-in default otherwise; with no
\* persisted data the configuration is templateFolder "Templates", dateFormat
\* "YYYY-MM-DD", timeFormat "HH:mm", templateOnRename false, caseSensitive true and
\* no rules.
C17_LoadSettingsMerges ==
    call.op = "loadSettings" =>
        /\ DOMAIN settings = DOMAIN StatedDefaults
        /\ \A k \in DOMAIN StatedDefaults :
              settings[k] = IF k \in DOMAIN call.read THEN call.read[k]
                            ELSE StatedDefaults[k]
        /\ DOMAIN call.read = {} => settings = StatedDefaults

\* data.json holds caseSensitive: false alone: that value is loaded, the other keys
\* have their defaults
C17_Witness ==
    /\ call.op = "loadSettings"
    /\ DOMAIN call.read = {"caseSensitive"}
    /\ settings.caseSensitive = FALSE
    /\ settings.templateOnRename = FALSE
    /\ settings.matchers = <<>>

\* nothing was ever saved
C17_WitnessNoData ==
    /\ call.op = "loadSettings"
    /\ DOMAIN call.read = {}
    /\ settings.caseSensitive = TRUE

-----------------------------------------------------------------------------
(* C18 *)

\* C18: whenever an action of the settings tab has completed (a rule added, edited
\* or deleted, an option changed, the tab opened or drawn again) and no write is
\* under way, the persisted configuration is the configuration in memory, rule
\* list included.
\* Violated: display() pushes an empty rule when the rule list is empty and does
\* not call saveSettings; opening the tab of a fresh installation, or deleting the
\* last rule, leaves one rule in memory and none on disk.
C18_SavedOnEveryMutation ==
    (TabOpen /\ saves.pending = <<>>) =>
        \A k \in DOMAIN settings :
            IF k \in DOMAIN data THEN data[k] = settings[k]
            ELSE settings[k] = DEFAULT_SETTINGS[k]

-----------------------------------------------------------------------------
(* C19 *)

CycleNames == { <<"T", "o">>, <<"t", "o">>, <<"x", "T", "o">>, <<"x">> }

\* C19: onunload followed by onload gives the rule list the plugin had before
\* onunload, rule by rule, and the reloaded rules resolve basenames as the rules
\* did before the cycle.
\* Violated: onunload only starts saveSettings and the host does not wait for it;
\* an onload that reads data.json before that write is done, or before the write
\* of an edit made just before, brings back the rule list of the last write.
C19_RulesSurviveCycle ==
    (call.op = "loadSettings" /\ call.cycled) =>
        /\ settings.matchers = call.before.matchers
        /\ \A b \in CycleNames :
              findMatcherIndex(b) =
                  FirstMatch(b, call.before.matchers, call.before.caseSensitive)

-----------------------------------------------------------------------------
(* C20 *)

\* C20: the old basename the rename handler tests against the rule is the last
\* component of the old path without its extension, whatever the directory depth
\* and the length of the extension.
\* Violated: oldName.split("/").pop().slice(0, -3) removes three characters, the
\* length of ".md"; for "to.txt" the handler tests "to.", for "tox.c" it tests "to".
C20_OldBasename ==
    (H.kind = "rename" /\ H.matcherIndex # 0 /\ H.settings0.templateOnRename)
        => H.oldBaseName = Basename(H.oldPath)

-----------------------------------------------------------------------------
(* C21 *)

\* the content the note was created with
CreatedContent ==
    IF tasks["h2"].kind = "rename" THEN tasks["h1"].vault0[tasks["h2"].oldPath]
    ELSE tasks["h1"].vault0[tasks["h1"].file]

\* what a handler that wrote makes of the content c
Prepended(t, c) == IF t.writes = 1 THEN t.templateContent \o BlankLine \o c ELSE c

\* C21: a create event followed by a rename event on the same note: once both
\* handlers have ended, the note holds what the create handler and then the rename
\* handler make of its content, however their steps interleaved.
\* Violated: both handlers read the note before either writes, and the second
\* vault.modify replaces the first with content built from the stale read. Note
\* "x.md" created empty under rules x -> t/A.md and o -> t/B.md and renamed to
\* "To.md" ends as "09{{x}}\n\n" and the template of rule x is lost.
C21_EmissionOrder ==
    (/\ tasks["h1"].pc = "done" /\ tasks["h2"].pc = "done"
     /\ tasks["h1"].file = tasks["h2"].file)
        => vault[tasks["h2"].file] =
              Prepended(tasks["h2"], Prepended(tasks["h1"], CreatedContent))

-----------------------------------------------------------------------------
(* C22 *)

\* the first rule matching the old basename, at the moment the event was received
OldRuleIndex(t) ==
    FirstMatch(Basename(t.oldPath), t.settings0.matchers, t.settings0.caseSensitive)

NewRuleIndex(t) ==
    FirstMatch(Basename(t.file), t.settings0.matchers, t.settings0.caseSensitive)

\* C22: with templateOnRename enabled, a rename from a name whose first matching
\* rule is A to a name whose first matching rule is another rule B that the old
\* name does not match prepends B's rendered template to the note's content.
\* Violated through C20: the guard tests the old file name without its last three
\* characters; under the rules suffix "to", contains "o" (case-insensitive),
\* renaming "tox.c" (first rule: contains "o") to "To.md" (first rule: suffix "to")
\* tests "to", which the suffix rule matches, and nothing is written.
C22_RuleToRule ==
    (/\ H.kind = "rename" /\ H.pc = "done"
     /\ H.settings0.templateOnRename
     /\ OldRuleIndex(H) # 0 /\ NewRuleIndex(H) # 0
     /\ OldRuleIndex(H) # NewRuleIndex(H)
     /\ ~ OldNameMatches(H))
        => /\ H.writes = 1
           /\ vault[H.file] = Rendered(H) \o BlankLine \o H.vault0[H.file]

-----------------------------------------------------------------------------
(* C23 *)

\* the lowercase, trimmed form of the methods the rules are drawn with
NormalizedMethod(m) == IF m = "Prefix" THEN "prefix" ELSE m

\* C23: a rule's matchMethod counts in its lowercase, trimmed form: a rule whose
\* method is written "Prefix" matches exactly the basenames the prefix rule with
\* the same matchString matches.
\* Violated: a rule is a plain object (interface Matcher) and nothing normalizes
\* its matchMethod, neither when it is loaded from the persisted data nor in
\* fileMatchesRule, whose switch compares with "prefix", "suffix" and "contains"
\* as they are: the rule "T" with method "Prefix" does not match the basename "T".
C23_MethodNormalized ==
    call.op = "fileMatchesRule" =>
        call.result =
            RuleMatches(call.basename,
                        [settings.matchers[1] EXCEPT !.matchMethod = NormalizedMethod(@)],
                        settings.caseSensitive)

-----------------------------------------------------------------------------
(* C24 *)

\* C24: over a sequence of renames of one note, with templateOnRename enabled, no
\* rename handler prepends the template of the rule whose template a rename
\* handler prepended before.
\* Violated: the guard looks at the old and the new name of one event and keeps
\* no history, and it takes the old name to be the old path less its last three
\* characters. Under the suffix rule "to" (template missing, case-insensitive) the
\* note renamed "x.md" -> "To.md" -> "x.md" -> "To.md" gets "\n\n" prepended twice,
\* and so does the note renamed "x.md" -> "to.txt" -> "To.md", whose two last names
\* both match the rule.
C24_Original ==
    H.repeat = "none"

-----------------------------------------------------------------------------
(* C25 *)

\* C25: a create or rename handler writes to the file of its event only: every
\* other file of the vault (the template, the other notes) has the content it had
\* when the event was received, and the settings in memory and on disk are as they
\* were, also when the file of the event is the template of the rule it matches.
C25_WritesOnlyEventFile ==
    H.kind \in {"create", "rename"} =>
        /\ DOMAIN vault = DOMAIN H.vault0
        /\ \A p \in DOMAIN vault \ {H.file} : vault[p] = H.vault0[p]
        /\ H.writes = 0 => vault[H.file] = H.vault0[H.file]
        /\ settings = H.settings0
        /\ settings = loadSettings(data)

\* the note "To.md", created with content "m", is the template of the rule it
\* matches: it ends as "m\n\nm" and the other files are as before
C25_Witness ==
    /\ H.kind = "create" /\ H.pc = "done" /\ H.writes = 1
    /\ H.templatePath = H.file
    /\ vault[H.file] = <<"m", "\n", "\n", "m">>
    /\ vault[PathBystander] = <<"z">>
    /\ vault[PathToA] = TemplateA

\* a rename handler has prepended the template of another note
C25_WitnessRename ==
    /\ H.kind = "rename" /\ H.pc = "done" /\ H.writes = 1
    /\ H.templatePath = PathToB
    /\ vault[PathToB] = TemplateB

-----------------------------------------------------------------------------
(* C26 *)

\* rendering under given default formats: date and time tokens replaced, the rest
\* copied
RECURSIVE RenderedWith(_, _, _)
RenderedWith(content, dateFormat, timeFormat) ==
    IF content = <<>> THEN <<>>
    ELSE LET k == bracketCapture(content)
         IN  IF k = 0 THEN <<Head(content)>> \o RenderedWith(Tail(content), dateFormat, timeFormat)
             ELSE LET x == SubSeq(content, 3, k + 2)
                      out == IF x = <<"d", "a", "t", "e">> THEN momentFormat(dateFormat, clock)
                             ELSE IF x = <<"t", "i", "m", "e">> THEN momentFormat(timeFormat, clock)
                             ELSE IF \/ IsPrefixOf(<<"d", "a", "t", "e", ":">>, x)
                                     \/ IsPrefixOf(<<"t", "i", "m", "e", ":">>, x)
                             THEN momentFormat(SubSeq(x, 6, k), clock)
                             ELSE SubSeq(content, 1, k + 4)
                  IN  out \o RenderedWith(SubSeq(content, k + 5, Len(content)),
                                          dateFormat, timeFormat)

\* what the handler makes of the note when it renders with the settings s
OutcomeUnder(t, s) ==
    IF ~ AppliesTemplate(t) THEN t.vault0[t.file]
    ELSE RenderedWith(t.vault0[RuleOf(t).templatePath], s.dateFormat, s.timeFormat)
            \o BlankLine \o t.vault0[t.file]

\* C26 as stated: what a handler writes is determined by the settings as they
\* were when its event was received, whatever the settings tab changes while the
\* handler is suspended.
\* Violated: evaluateTemplate reads this.settings.dateFormat and timeFormat after
\* `await this.app.vault.read(template)`. A note "To.md" created under the rule
\* To -> "-{{date}}" while dateFormat is "YYYY-MM-DD", the format changed to
\* "DD/MM" before the template read resumes, gets "-19/12".
C26_Original ==
    (H.kind \in {"create", "rename"} /\ H.pc = "done")
        => vault[H.file] = OutcomeUnder(H, H.settings0)

\* C26 amended: whether a handler writes and which template it applies is
\* determined by templateOnRename, caseSensitive and the rules as they were when
\* the event was received; the default date and time formats are those in force
\* when the template read resumes.
C26_EventTimeSettings ==
    (H.kind \in {"create", "rename"} /\ H.pc = "done")
        => /\ H.writes = (IF AppliesTemplate(H) THEN 1 ELSE 0)
           /\ vault[H.file] = OutcomeUnder(H, H.settings1)

\* the rule's matchString and templateOnRename were changed while the handler was
\* suspended, so that the rule no longer matches the note; the handler has
\* written as the rule at the time of the event has it
C26_Witness ==
    /\ H.kind = "create" /\ H.pc = "done" /\ H.writes = 1
    /\ TabOpen
    /\ H.settings0.matchers[1].matchString # settings.matchers[1].matchString
    /\ H.settings0.templateOnRename # settings.templateOnRename
    /\ ~ fileMatchesRule(Basename(H.file), settings.matchers[1])
    /\ vault[H.file] = OutcomeUnder(H, H.settings0)

\* the date format was changed before the template read resumed
C26_WitnessFormat ==
    /\ H.kind = "rename" /\ H.pc = "done" /\ H.writes = 1
    /\ H.settings0.dateFormat # H.settings1.dateFormat
    /\ vault[H.file] # OutcomeUnder(H, H.settings0)

-----------------------------------------------------------------------------
(* C27 *)

\* the content is the same token twice, with "-" in between
SameTokenTwice(content) ==
    \E tok \in {TokDate, TokTime, TokDateDD, TokTimeHH} : content = tok \o <<"-">> \o tok

\* C27: all tokens of one evaluateTemplate call are formatted from one timestamp:
\* a template that holds the same token twice is rendered as the same text twice,
\* also when the clock advances during the call.
\* Violated: each replacement callback calls moment() itself. At 23:59 on
\* 2024-12-31 "{{date}}-{{date}}" is rendered as "2024-12-31-2025-01-01" when the
\* minute changes between the two callbacks.
C27_OneTimestamp ==
    (call.op = "evaluateTemplate" /\ SameTokenTwice(call.content)) =>
        \E n \in 0..Len(call.result) :
            call.result = SubSeq(call.result, 1, n) \o <<"-">> \o SubSeq(call.result, 1, n)

====
